---- MODULE Spec2Model ----
(***************************************************************************)
(* Model of scripts/train.py: one training run is a straight-line script   *)
(* over a workspace dataset registry, a model registry, a run tracker and  *)
(* the local file system.  A behaviour is a sequence of runs against the   *)
(* same workspace.                                                         *)
(*                                                                         *)
(* The four numeric settings of the script are scaled down (90000, 5000,   *)
(* 10000 and 100 in the source) so that the cases on both sides of each    *)
(* threshold are enumerable; every formula is stated in terms of the       *)
(* names, never of the values.                                             *)
(***************************************************************************)
EXTENDS Integers, Sequences, FiniteSets, TLC

\* ------------------------------------------------------------------ settings
embedding_dim == 2
training_samples == 2
validation_samples == 2
max_words == 3

glove_ds_name == "glove_6B_100d"
cardata_ds_name == "connected_car_components"
model_description == "car components classifier"

\* ------------------------------------------------------------------ bounds
MaxRuns == 2
MaxRecords == 5
MaxTexts == 2
MaxTextLen == 2
MaxGloveLines == 2
MaxEmbTextLen == 4

Words == {"a", "b", "c", "d"}
GloveWords == {"a", "c", "zz"}
Vectors == {<<1, 1>>, <<2, 0>>}
BuildNumbers == {"b1", "b2"}
ModelNames == {"m"}

\* ------------------------------------------------------------------ helpers
Min(a, b) == IF a < b THEN a ELSE b
Max(a, b) == IF a < b THEN b ELSE a

SeqsUpTo(S, n) == UNION {[1..k -> S] : k \in 0..n}

RECURSIVE Concat(_)
Concat(ss) == IF ss = <<>> THEN <<>> ELSE Head(ss) \o Concat(Tail(ss))

Range(s) == {s[k] : k \in 1..Len(s)}

\* Python slice s[a:b] on a 0-based array, b clipped to the length
Slice(s, a, b) == SubSeq(s, a + 1, Min(b, Len(s)))

\* s[a:] taken one element early
SliceFrom_early(s, a) == SubSeq(s, a, Len(s))

\* Python slice s[a:]
SliceFrom(s, a) == SubSeq(s, a + 1, Len(s))

Zeros(n) == [k \in 1..n |-> 0]

\* ------------------------------------------------------------------ Tokenizer
\* Tokenizer.fit_on_texts: every token of the corpus is counted, the tokens
\* are ordered by descending count (ties keep first-seen order) and numbered
\* from 1.  num_words plays no part here.
WordCount(texts, w) ==
    LET flat == Concat(texts) IN Cardinality({k \in 1..Len(flat) : flat[k] = w})

FirstSeen(texts, w) ==
    LET flat == Concat(texts) IN CHOOSE k \in 1..Len(flat) :
        flat[k] = w /\ \A j \in 1..(k - 1) : flat[j] # w

fit_on_texts(texts) ==
    LET voc == Range(Concat(texts))
        Before(v, w) == \/ WordCount(texts, v) > WordCount(texts, w)
                        \/ /\ WordCount(texts, v) = WordCount(texts, w)
                           /\ FirstSeen(texts, v) < FirstSeen(texts, w)
    IN [w \in voc |-> 1 + Cardinality({v \in voc : Before(v, w)})]

\* texts_to_sequences without the num_words filter
RECURSIVE text_to_sequence_uncapped(_, _, _)
text_to_sequence_uncapped(wi, num_words, text) ==
    IF text = <<>> THEN <<>>
    ELSE LET w == Head(text)
             rest == text_to_sequence_uncapped(wi, num_words, Tail(text))
         IN IF w \notin DOMAIN wi THEN rest ELSE <<wi[w]>> \o rest

\* Tokenizer.texts_to_sequences: a token is dropped when it is unknown or when
\* its index is not below num_words.
RECURSIVE text_to_sequence(_, _, _)
text_to_sequence(wi, num_words, text) ==
    IF text = <<>> THEN <<>>
    ELSE LET w == Head(text)
             rest == text_to_sequence(wi, num_words, Tail(text))
         IN IF w \notin DOMAIN wi THEN rest
            ELSE IF wi[w] >= num_words THEN rest
            ELSE <<wi[w]>> \o rest

texts_to_sequences(wi, num_words, texts) ==
    [k \in 1..Len(texts) |-> text_to_sequence(wi, num_words, texts[k])]

\* pad_sequences with the defaults: keep the last maxlen entries, pad with 0
\* on the left
pad_sequence(s, maxlen) ==
    LET kept == IF Len(s) > maxlen THEN SubSeq(s, Len(s) - maxlen + 1, Len(s)) ELSE s
    IN Zeros(maxlen - Len(kept)) \o kept

pad_sequences(seqs, maxlen) == [k \in 1..Len(seqs) |-> pad_sequence(seqs[k], maxlen)]

\* ------------------------------------------------------------------ split
\* every outcome of np.random.shuffle(np.arange(n)): the orderings of 0..n-1
Shuffles(n) == {p \in [1..n -> 0..(n - 1)] : \A i, j \in 1..n : p[i] = p[j] => i = j}

\* numpy fancy indexing a[indices] on a 0-based array
Take(a, idx) == [k \in 1..Len(idx) |-> a[idx[k] + 1]]

\* ------------------------------------------------------------------ embeddings
\* the loop over the lines of the vector file: a later line for the same word
\* replaces the earlier one
RECURSIVE read_embeddings(_, _)
read_embeddings(lines, acc) ==
    IF lines = <<>> THEN acc
    ELSE LET l == Head(lines)
         IN read_embeddings(Tail(lines),
                [w \in (DOMAIN acc) \cup {l.word} |-> IF w = l.word THEN l.coefs ELSE acc[w]])

EmptyIndex == [w \in {} |-> <<>>]

\* the row assignment shifted to a 0-based token index
set_row_shifted(matrix, ei, word, i) ==
    IF i < max_words
    THEN IF word \in DOMAIN ei THEN [matrix EXCEPT ![i - 1] = ei[word]] ELSE matrix
    ELSE matrix

\* one iteration of the loop over word_index.items()
set_row(matrix, ei, word, i) ==
    IF i < max_words
    THEN IF word \in DOMAIN ei THEN [matrix EXCEPT ![i] = ei[word]] ELSE matrix
    ELSE matrix

RECURSIVE fill_matrix(_, _, _, _)
fill_matrix(matrix, wi, ei, todo) ==
    IF todo = {} THEN matrix
    ELSE LET w == CHOOSE x \in todo : TRUE
         IN fill_matrix(set_row(matrix, ei, w, wi[w]), wi, ei, todo \ {w})

build_embedding_matrix(wi, ei) ==
    fill_matrix([i \in 0..(max_words - 1) |-> Zeros(embedding_dim)], wi, ei, DOMAIN wi)

\* ------------------------------------------------------------------ paths
\* a path is the sequence of its components; os.chdir and file access resolve
\* it against the process working directory
RECURSIVE Resolve(_, _)
Resolve(base, p) ==
    IF p = <<>> THEN base
    ELSE IF Head(p) = "." THEN Resolve(base, Tail(p))
    ELSE IF Head(p) = ".."
         THEN Resolve(IF base = <<>> THEN base ELSE SubSeq(base, 1, Len(base) - 1), Tail(p))
    ELSE Resolve(Append(base, Head(p)), Tail(p))

datasets_folder == <<".", "datasets">>
outputs_model_dir == <<".", "outputs", "model">>
save_path == <<".", "outputs", "model", "model.h5">>
chdir_target == <<".", "outputs">>
register_model_path == <<"model.h5">>
chdir_back_target == <<"..">>
glove_file_name == "glove.6B.100d.txt"

\* os.makedirs(p, exist_ok=True): p and every prefix of it
makedirs(ds, p) == ds \cup {SubSeq(p, 1, k) : k \in 1..Len(p)}

WriteFile(fs, p, content) == [q \in (DOMAIN fs) \cup {p} |-> IF q = p THEN content ELSE fs[q]]

NoLines == <<>>
StaleFile == [kind |-> "stale", run |-> 0, lines |-> NoLines]
NoFiles == [q \in {} |-> StaleFile]

\* ------------------------------------------------------------------ registry
\* number of versions registered under a name
Versions(reg, name) == Cardinality({k \in 1..Len(reg) : reg[k].name = name})

\* Dataset.register: a new version of `name` carrying the given tags
Dataset_register(reg, name, tags, r) ==
    Append(reg, [name |-> name, version |-> Versions(reg, name) + 1, tags |-> tags, run |-> r])

Unregistered == [name |-> "", version |-> 0]
NoTags == {}

\* ------------------------------------------------------------------ state
VARIABLES
    pc,                \* position of the current run in the script
    runNo,             \* number of runs started so far; the current run's id
    builds,            \* the build number each run was started with
    provisioned,       \* the runs that completed both dataset registrations
    build_number,      \* args.build_number
    model_name,        \* args.model_name
    registry,          \* dataset registry of the workspace: registered versions
    registerCalls,     \* every Dataset register call issued, in order
    models,            \* model registry of the workspace
    files, dirs, cwd,  \* local file system and working directory
    glove_lookup,      \* outcome of Dataset.get_by_name in this run
    glove_ds, cardata_ds, glove_file_path,
    trace,             \* stages this run has completed, in order
    logged,            \* metrics logged to the run tracker by this run
    car_components_df, components, labels, word_index, sequences, data, indices,
    x_train, y_train, x_val, y_val, x_test, y_test,
    embeddings_index, embedding_matrix

envVars == <<registry, registerCalls, models, files, dirs, provisioned>>
runVars == <<runNo, build_number, model_name, builds>>
dsVars == <<glove_lookup, glove_ds, cardata_ds, glove_file_path>>
textVars == <<car_components_df, components, word_index, sequences>>
splitVars == <<data, labels, indices, x_train, y_train, x_val, y_val, x_test, y_test>>
embVars == <<embeddings_index, embedding_matrix>>
vars == <<pc, cwd, trace, logged, envVars, runVars, dsVars, textVars, splitVars, embVars>>

EmptyWordIndex == [w \in {} |-> 0]

\* inputs
Texts == SeqsUpTo(Words, MaxTextLen)
Corpora == SeqsUpTo(Texts, MaxTexts)
GloveLines == [word : GloveWords, coefs : Vectors]
GloveFiles == SeqsUpTo(GloveLines, MaxGloveLines)
LabelsFor(n) == [1..n -> {0, 1}]

\* what a run of the whole script is given: the corpus behind cardata_url and
\* the vector file behind glove_url
RunCorpora == {<<>>, <<<<"a", "b">>, <<"c", "d", "a">>>>}
RunGloveFiles == {<<[word |-> "a", coefs |-> <<1, 1>>], [word |-> "zz", coefs |-> <<2, 0>>]>>}

Column(df, col) == [k \in 1..Len(df) |-> df[k][col]]

\* a dataframe whose "text" column is the corpus c and whose "label" column is l
Dataframe(c, l) == [k \in 1..Len(c) |-> [text |-> c[k], label |-> l[k]]]

RunInputs == {Dataframe(c, [k \in 1..Len(c) |-> k % 2]) : c \in RunCorpora}

\* ------------------------------------------------------------------ a run
\* the statement order with serialization moved behind the metric logs
next_pc_save_last(stage) ==
    CASE stage = "glove_lookup" -> "glove_register"
      [] stage = "glove_register" -> "glove_download"
      [] stage = "glove_download" -> "cardata_load"
      [] stage = "cardata_load" -> "cardata_register"
      [] stage = "cardata_register" -> "to_dataframe"
      [] stage = "to_dataframe" -> "tokenize"
      [] stage = "tokenize" -> "split"
      [] stage = "split" -> "load_glove"
      [] stage = "load_glove" -> "embedding_matrix"
      [] stage = "embedding_matrix" -> "build_model"
      [] stage = "build_model" -> "fit"
      [] stage = "fit" -> "evaluate"
      [] stage = "evaluate" -> "log_loss"
      [] stage = "log_loss" -> "log_acc"
      [] stage = "log_acc" -> "save"
      [] stage = "save" -> "chdir_outputs"
      [] stage = "chdir_outputs" -> "register_model"
      [] stage = "register_model" -> "chdir_back"
      [] stage = "chdir_back" -> "done"

\* the statement order of the script: the stage that follows each stage
next_pc(stage) ==
    CASE stage = "glove_lookup" -> "glove_register"
      [] stage = "glove_register" -> "glove_download"
      [] stage = "glove_download" -> "cardata_load"
      [] stage = "cardata_load" -> "cardata_register"
      [] stage = "cardata_register" -> "to_dataframe"
      [] stage = "to_dataframe" -> "tokenize"
      [] stage = "tokenize" -> "split"
      [] stage = "split" -> "load_glove"
      [] stage = "load_glove" -> "embedding_matrix"
      [] stage = "embedding_matrix" -> "build_model"
      [] stage = "build_model" -> "fit"
      [] stage = "fit" -> "save"
      [] stage = "save" -> "evaluate"
      [] stage = "evaluate" -> "log_loss"
      [] stage = "log_loss" -> "log_acc"
      [] stage = "log_acc" -> "chdir_outputs"
      [] stage = "chdir_outputs" -> "register_model"
      [] stage = "register_model" -> "chdir_back"
      [] stage = "chdir_back" -> "done"

Done(stage) == trace' = Append(trace, stage)

NoRunData ==
    /\ car_components_df = <<>>
    /\ components = <<>> /\ word_index = EmptyWordIndex /\ sequences = <<>>
    /\ data = <<>> /\ labels = <<>> /\ indices = <<>>
    /\ x_train = <<>> /\ y_train = <<>> /\ x_val = <<>>
    /\ y_val = <<>> /\ x_test = <<>> /\ y_test = <<>>
    /\ embeddings_index = EmptyIndex /\ embedding_matrix = <<>>

NoHandles ==
    /\ glove_lookup = "none" /\ glove_ds = Unregistered
    /\ cardata_ds = Unregistered /\ glove_file_path = <<>>

\* the workspace and machine before the first run: nothing registered; the
\* start directory may or may not already hold a file outputs/model.h5
Init ==
    /\ pc = "idle" /\ runNo = 0 /\ builds = <<>> /\ provisioned = {}
    /\ build_number = "" /\ model_name = ""
    /\ registry = <<>> /\ registerCalls = <<>> /\ models = <<>>
    /\ \/ files = NoFiles /\ dirs = {}
       \/ /\ files = WriteFile(NoFiles, <<"outputs", "model.h5">>, StaleFile)
          /\ dirs = {<<"outputs">>}
    /\ cwd = <<>> /\ trace = <<>> /\ logged = <<>>
    /\ NoHandles
    /\ NoRunData

\* process start: argument parsing, settings, Run.get_context()
StartRun(b, m) ==
    /\ pc \in {"idle", "done", "failed"}
    /\ runNo < MaxRuns
    /\ runNo' = runNo + 1
    /\ build_number' = b /\ model_name' = m
    /\ builds' = Append(builds, b)
    /\ car_components_df' = <<>>
    /\ pc' = "glove_lookup"
    /\ cwd' = <<>> /\ trace' = <<>> /\ logged' = <<>>
    /\ glove_lookup' = "none" /\ glove_ds' = Unregistered
    /\ cardata_ds' = Unregistered /\ glove_file_path' = <<>>
    /\ components' = <<>> /\ word_index' = EmptyWordIndex /\ sequences' = <<>>
    /\ data' = <<>> /\ labels' = <<>> /\ indices' = <<>>
    /\ x_train' = <<>> /\ y_train' = <<>> /\ x_val' = <<>>
    /\ y_val' = <<>> /\ x_test' = <<>> /\ y_test' = <<>>
    /\ embeddings_index' = EmptyIndex /\ embedding_matrix' = <<>>
    /\ UNCHANGED envVars

\* try: Dataset.get_by_name(...)  except: (any exception)
GloveLookup(outcome) ==
    /\ pc = "glove_lookup"
    /\ outcome = "found" => Versions(registry, glove_ds_name) > 0
    /\ outcome = "not_found" => Versions(registry, glove_ds_name) = 0
    /\ glove_lookup' = outcome
    /\ IF outcome = "found"
       THEN /\ glove_ds' = [name |-> glove_ds_name,
                            version |-> Versions(registry, glove_ds_name)]
            /\ pc' = next_pc("glove_register")
       ELSE /\ glove_ds' = glove_ds
            /\ pc' = next_pc("glove_lookup")
    /\ Done("glove_lookup")
    /\ UNCHANGED <<cwd, logged, envVars, runVars, cardata_ds, glove_file_path,
                   textVars, splitVars, embVars>>

\* the except branch: Dataset.File.from_files(glove_url), glove_ds.register(...)
GloveRegister ==
    /\ pc = "glove_register"
    /\ registerCalls' = Append(registerCalls,
            [run |-> runNo, name |-> glove_ds_name,
             existed |-> Versions(registry, glove_ds_name) > 0])
    /\ registry' = Dataset_register(registry, glove_ds_name, NoTags, runNo)
    /\ glove_ds' = [name |-> glove_ds_name, version |-> Versions(registry', glove_ds_name)]
    /\ pc' = next_pc("glove_register")
    /\ Done("glove_register")
    /\ UNCHANGED <<cwd, logged, models, files, dirs, provisioned, runVars, glove_lookup,
                   cardata_ds, glove_file_path, textVars, splitVars, embVars>>

\* glove_ds.download(target_path=datasets_folder, overwrite=True)
GloveDownload(lines) ==
    /\ pc = "glove_download"
    /\ LET dir == Resolve(cwd, datasets_folder)
           path == Append(dir, glove_file_name)
       IN /\ dirs' = makedirs(dirs, dir)
          /\ files' = WriteFile(files, path,
                        [kind |-> "glove", run |-> runNo, lines |-> lines])
          /\ glove_file_path' = path
    /\ pc' = next_pc("glove_download")
    /\ Done("glove_download")
    /\ UNCHANGED <<cwd, logged, registry, registerCalls, models, provisioned, runVars,
                   glove_lookup, glove_ds, cardata_ds, textVars, splitVars, embVars>>

\* Dataset.Tabular.from_delimited_files(path=cardata_url)
CardataLoad ==
    /\ pc = "cardata_load"
    /\ cardata_ds' = Unregistered
    /\ pc' = next_pc("cardata_load")
    /\ Done("cardata_load")
    /\ UNCHANGED <<cwd, logged, envVars, runVars, glove_lookup, glove_ds, glove_file_path,
                   textVars, splitVars, embVars>>

\* the tags given to cardata_ds.register
cardata_tags(b) == {<<"build_number", b>>}

\* registration of the tabular dataset only while the name is absent
cardata_register_if_absent(reg) == Versions(reg, cardata_ds_name) = 0

\* whether the tabular dataset is registered by this run: always
cardata_register_needed(reg) == TRUE

\* cardata_ds.register(..., tags={"build_number": args.build_number})
CardataRegister ==
    /\ pc = "cardata_register"
    /\ IF cardata_register_needed(registry)
       THEN /\ registerCalls' = Append(registerCalls,
                    [run |-> runNo, name |-> cardata_ds_name,
                     existed |-> Versions(registry, cardata_ds_name) > 0])
            /\ registry' = Dataset_register(registry, cardata_ds_name,
                                            cardata_tags(build_number), runNo)
       ELSE UNCHANGED <<registry, registerCalls>>
    /\ cardata_ds' = [name |-> cardata_ds_name,
                      version |-> Versions(registry', cardata_ds_name)]
    /\ provisioned' = provisioned \cup {runNo}
    /\ pc' = next_pc("cardata_register")
    /\ Done("cardata_register")
    /\ UNCHANGED <<cwd, logged, models, files, dirs, runVars, glove_lookup, glove_ds,
                   glove_file_path, textVars, splitVars, embVars>>

\* cardata_ds.to_pandas_dataframe(), the "text" and "label" columns
ToDataframe(input) ==
    /\ pc = "to_dataframe"
    /\ car_components_df' = input
    /\ components' = Column(input, "text")
    /\ labels' = Column(input, "label")
    /\ pc' = next_pc("to_dataframe")
    /\ Done("to_dataframe")
    /\ UNCHANGED <<cwd, logged, envVars, runVars, dsVars, word_index, sequences,
                   data, indices, x_train, y_train, x_val, y_val, x_test, y_test, embVars>>

\* Tokenizer(num_words=max_words), fit_on_texts, texts_to_sequences, pad_sequences
Tokenize ==
    /\ pc = "tokenize"
    /\ word_index' = fit_on_texts(components)
    /\ sequences' = texts_to_sequences(word_index', max_words, components)
    /\ data' = pad_sequences(sequences', embedding_dim)
    /\ pc' = next_pc("tokenize")
    /\ Done("tokenize")
    /\ UNCHANGED <<cwd, logged, envVars, runVars, dsVars, car_components_df, components,
                   labels, indices, x_train, y_train, x_val, y_val, x_test, y_test,
                   embVars>>

\* the labels reindexed by the reversed order
label_order_reversed(p) == [k \in 1..Len(p) |-> p[Len(p) + 1 - k]]

\* the order applied to the labels, given the order applied to the features
label_order(p) == p

\* shuffle of the indices, reindexing of data and labels, the three slices
Split ==
    /\ pc = "split"
    /\ \E p \in Shuffles(Len(data)) :
        LET d == Take(data, p)
            l == Take(labels, label_order(p))
        IN /\ indices' = p
           /\ data' = d
           /\ labels' = l
           /\ x_train' = Slice(d, 0, training_samples)
           /\ y_train' = Slice(l, 0, training_samples)
           /\ x_val' = Slice(d, training_samples, training_samples + validation_samples)
           /\ y_val' = Slice(l, training_samples, training_samples + validation_samples)
           /\ x_test' = SliceFrom(d, training_samples + validation_samples)
           /\ y_test' = SliceFrom(l, training_samples + validation_samples)
    /\ pc' = next_pc("split")
    /\ Done("split")
    /\ UNCHANGED <<cwd, logged, envVars, runVars, dsVars, textVars, embVars>>

\* open(glove_file_path) and the loop over its lines
LoadGlove ==
    /\ pc = "load_glove"
    /\ glove_file_path \in DOMAIN files
    /\ embeddings_index' = read_embeddings(files[glove_file_path].lines, EmptyIndex)
    /\ pc' = next_pc("load_glove")
    /\ Done("load_glove")
    /\ UNCHANGED <<cwd, logged, envVars, runVars, dsVars, textVars, splitVars,
                   embedding_matrix>>

\* np.zeros((max_words, embedding_dim)) and the loop over word_index.items()
BuildEmbeddingMatrix ==
    /\ pc = "embedding_matrix"
    /\ embedding_matrix' = build_embedding_matrix(word_index, embeddings_index)
    /\ pc' = next_pc("embedding_matrix")
    /\ Done("embedding_matrix")
    /\ UNCHANGED <<cwd, logged, envVars, runVars, dsVars, textVars, splitVars,
                   embeddings_index>>

\* Sequential(), the layers, set_weights([embedding_matrix]), compile
BuildModel ==
    /\ pc = "build_model"
    /\ pc' = next_pc("build_model")
    /\ Done("build_model")
    /\ UNCHANGED <<cwd, logged, envVars, runVars, dsVars, textVars, splitVars, embVars>>

\* model.fit(x_train, y_train, validation_data=(x_val, y_val))
Fit ==
    /\ pc = "fit"
    /\ pc' = next_pc("fit")
    /\ Done("fit")
    /\ UNCHANGED <<cwd, logged, envVars, runVars, dsVars, textVars, splitVars, embVars>>

\* os.makedirs('./outputs/model', exist_ok=True), model.save(...)
Save ==
    /\ pc = "save"
    /\ dirs' = makedirs(dirs, Resolve(cwd, outputs_model_dir))
    /\ files' = WriteFile(files, Resolve(cwd, save_path),
                    [kind |-> "model", run |-> runNo, lines |-> NoLines])
    /\ pc' = next_pc("save")
    /\ Done("save")
    /\ UNCHANGED <<cwd, logged, registry, registerCalls, models, provisioned, runVars,
                   dsVars, textVars, splitVars, embVars>>

\* model.evaluate(x_test, y_test)
Evaluate ==
    /\ pc = "evaluate"
    /\ pc' = next_pc("evaluate")
    /\ Done("evaluate")
    /\ UNCHANGED <<cwd, logged, envVars, runVars, dsVars, textVars, splitVars, embVars>>

\* run.log(model.metrics_names[0], ...)
LogLoss ==
    /\ pc = "log_loss"
    /\ logged' = Append(logged, "loss")
    /\ pc' = next_pc("log_loss")
    /\ Done("log_loss")
    /\ UNCHANGED <<cwd, envVars, runVars, dsVars, textVars, splitVars, embVars>>

\* run.log(model.metrics_names[1], ...)
LogAcc ==
    /\ pc = "log_acc"
    /\ logged' = Append(logged, "acc")
    /\ pc' = next_pc("log_acc")
    /\ Done("log_acc")
    /\ UNCHANGED <<cwd, envVars, runVars, dsVars, textVars, splitVars, embVars>>

\* os.chdir("./outputs")
ChdirOutputs ==
    /\ pc = "chdir_outputs"
    /\ Resolve(cwd, chdir_target) \in dirs
    /\ cwd' = Resolve(cwd, chdir_target)
    /\ pc' = next_pc("chdir_outputs")
    /\ Done("chdir_outputs")
    /\ UNCHANGED <<logged, envVars, runVars, dsVars, textVars, splitVars, embVars>>

\* the tags given to Model.register
model_tags(r, b) == {<<"type", "classification">>, <<"run_id", ToString(r)>>,
                     <<"build_number", b>>}

\* the first registered version in place of the run's own handle
training_data_first(reg, handle) == [name |-> handle.name, version |-> 1]

\* the dataset handle given to Model.register as 'training data'
training_data(reg, handle) == handle

\* Model.register(model_path='model.h5', ...): the file the path denotes in the
\* working directory of the moment is uploaded; a path that denotes no file is
\* an error
RegisterModel ==
    /\ pc = "register_model"
    /\ LET path == Resolve(cwd, register_model_path)
       IN /\ path \in DOMAIN files
          /\ models' = Append(models,
                [name |-> model_name, path |-> path, content |-> files[path],
                 tags |-> model_tags(runNo, build_number),
                 description |-> model_description,
                 datasets |-> <<"training data", training_data(registry, cardata_ds)>>,
                 run |-> runNo])
    /\ pc' = next_pc("register_model")
    /\ Done("register_model")
    /\ UNCHANGED <<cwd, logged, registry, registerCalls, files, dirs, provisioned,
                   runVars, dsVars, textVars, splitVars, embVars>>

\* os.chdir(".."), the final print
ChdirBack ==
    /\ pc = "chdir_back"
    /\ cwd' = Resolve(cwd, chdir_back_target)
    /\ pc' = next_pc("chdir_back")
    /\ Done("chdir_back")
    /\ UNCHANGED <<logged, envVars, runVars, dsVars, textVars, splitVars, embVars>>

\* the stages in which a raised exception is caught by the script
Caught == {"glove_lookup"}

\* the stages that call the registry, the network, the file system or the
\* training library and so can raise
Raising == {"glove_lookup", "glove_register", "glove_download", "cardata_load",
            "cardata_register", "to_dataframe", "load_glove", "build_model", "fit",
            "save", "evaluate", "log_loss", "log_acc", "chdir_outputs",
            "register_model"}

\* an exception nothing catches: the process exits with a stack trace
Fail ==
    /\ pc \in Raising \ Caught
    /\ pc' = "failed"
    /\ UNCHANGED <<cwd, trace, logged, envVars, runVars, dsVars, textVars, splitVars, embVars>>

Next ==
    \/ \E b \in BuildNumbers, m \in ModelNames : StartRun(b, m)
    \/ \E o \in {"found", "not_found", "error"} : GloveLookup(o)
    \/ GloveRegister
    \/ \E lines \in RunGloveFiles : GloveDownload(lines)
    \/ CardataLoad
    \/ CardataRegister
    \/ \E input \in RunInputs : ToDataframe(input)
    \/ Tokenize
    \/ Split
    \/ LoadGlove
    \/ BuildEmbeddingMatrix
    \/ BuildModel
    \/ Fit
    \/ Save
    \/ Evaluate
    \/ LogLoss
    \/ LogAcc
    \/ ChdirOutputs
    \/ RegisterModel
    \/ ChdirBack
    \/ Fail

Spec == Init /\ [][Next]_vars

\* ------------------------------------------------------------------ the data stages
\* The data stages are functions of the dataframe and of the vector file alone.
\* They are explored from the state a first run is in when it reaches line 123
\* (both datasets registered, the vector file downloaded, the dataframe
\* loaded), with the dataframe and the vector file drawn from wider sets than
\* a whole run is given.
AtTokenize(df, lines) ==
    /\ pc = "tokenize" /\ runNo = 1 /\ builds = <<"b1">> /\ provisioned = {1}
    /\ build_number = "b1" /\ model_name = "m"
    /\ registry = Dataset_register(Dataset_register(<<>>, glove_ds_name, NoTags, 1),
                                   cardata_ds_name, cardata_tags("b1"), 1)
    /\ registerCalls = <<[run |-> 1, name |-> glove_ds_name, existed |-> FALSE],
                         [run |-> 1, name |-> cardata_ds_name, existed |-> FALSE]>>
    /\ models = <<>>
    /\ files = WriteFile(NoFiles, <<"datasets", glove_file_name>>,
                         [kind |-> "glove", run |-> 1, lines |-> lines])
    /\ dirs = {<<"datasets">>}
    /\ cwd = <<>> /\ logged = <<>>
    /\ trace = <<"glove_lookup", "glove_register", "glove_download", "cardata_load",
                 "cardata_register", "to_dataframe">>
    /\ glove_lookup = "not_found"
    /\ glove_ds = [name |-> glove_ds_name, version |-> 1]
    /\ cardata_ds = [name |-> cardata_ds_name, version |-> 1]
    /\ glove_file_path = <<"datasets", glove_file_name>>
    /\ car_components_df = df
    /\ components = Column(df, "text")
    /\ labels = Column(df, "label")
    /\ word_index = EmptyWordIndex /\ sequences = <<>>
    /\ data = <<>> /\ indices = <<>>
    /\ x_train = <<>> /\ y_train = <<>> /\ x_val = <<>>
    /\ y_val = <<>> /\ x_test = <<>> /\ y_test = <<>>
    /\ embeddings_index = EmptyIndex /\ embedding_matrix = <<>>

\* tokenization of any corpus of up to MaxTexts texts of up to MaxTextLen tokens
VocabInputs == {Dataframe(c, [k \in 1..Len(c) |-> k % 2]) : c \in Corpora}

InitVocab == \E df \in VocabInputs, g \in RunGloveFiles : AtTokenize(df, g)

NextVocab == Tokenize

SpecVocab == InitVocab /\ [][NextVocab]_vars

\* the split of up to MaxRecords records
SplitRecords == {[text |-> <<"a">>, label |-> 0], [text |-> <<"b">>, label |-> 1],
                 [text |-> <<"a", "b">>, label |-> 1]}

SplitInputs == SeqsUpTo(SplitRecords, MaxRecords)

InitSplit == \E df \in SplitInputs, g \in RunGloveFiles : AtTokenize(df, g)

NextSplit == Tokenize \/ Split

SpecSplit == InitSplit /\ [][NextSplit]_vars

\* the embedding matrix for any vocabulary of up to MaxEmbTextLen tokens and any
\* vector file of up to MaxGloveLines lines
EmbInputs == {Dataframe(<<t>>, <<1>>) : t \in SeqsUpTo(Words, MaxEmbTextLen)}

InitEmb == \E df \in EmbInputs, g \in GloveFiles : AtTokenize(df, g)

NextEmb == Tokenize \/ Split \/ LoadGlove \/ BuildEmbeddingMatrix

SpecEmb == InitEmb /\ [][NextEmb]_vars

\* ------------------------------------------------------------------ properties
Completed(stage) == stage \in Range(trace)

\* position of a completed stage in the current run's trace
Pos(stage) == CHOOSE k \in 1..Len(trace) : trace[k] = stage

Precedes(s1, s2) == Completed(s2) => (Completed(s1) /\ Pos(s1) < Pos(s2))

GloveCalls == {k \in 1..Len(registerCalls) : registerCalls[k].name = glove_ds_name}

\* C1: across any sequence of runs the embeddings dataset is registered exactly
\* once: at most one version of 'glove_6B_100d' exists, and no register call
\* for that name is issued once the name is registered, whatever the lookup
\* returned.
C1_GloveRegisteredOnce ==
    /\ Versions(registry, glove_ds_name) <= 1
    /\ \A k \in GloveCalls : ~registerCalls[k].existed

CardataVersionsOf(r) ==
    {k \in 1..Len(registry) :
        registry[k].name = cardata_ds_name /\ registry[k].run = r}

C3_OnlyNotFoundCaught ==
    glove_lookup = "error" => (pc = "failed" /\ trace = <<"glove_lookup">>)

\* the files model.save wrote in the current run
SavedPaths == {q \in DOMAIN files : files[q].kind = "model" /\ files[q].run = runNo}

\* C4: the model_path given to Model.register, resolved against the working
\* directory of the moment, denotes the file model.save wrote, and every
\* registered artifact is the file its run serialized.
C4_RegisteredFileIsSavedFile ==
    /\ pc = "register_model" => Resolve(cwd, register_model_path) \in SavedPaths
    /\ \A k \in 1..Len(models) :
        models[k].content.kind = "model" /\ models[k].content.run = models[k].run

\* C5: the three split sizes sum to the record count N; with N >=
\* training_samples + validation_samples the train and validation splits have
\* their configured sizes; with a smaller N the train split has
\* min(N, training_samples) records, the validation split
\* min(max(N - training_samples, 0), validation_samples), the test split is
\* empty; and the split is taken for every N.
C5_SplitSizes ==
    LET N == Len(car_components_df)
    IN /\ pc = "split" => ENABLED Split
       /\ Completed("split") =>
            /\ Len(x_train) + Len(x_val) + Len(x_test) = N
            /\ Len(y_train) + Len(y_val) + Len(y_test) = N
            /\ N >= training_samples + validation_samples =>
                  /\ Len(x_train) = training_samples
                  /\ Len(x_val) = validation_samples
            /\ N < training_samples + validation_samples =>
                  /\ Len(x_train) = Min(N, training_samples)
                  /\ Len(x_val) = Min(Max(N - training_samples, 0), validation_samples)
                  /\ Len(x_test) = 0

C5_ShortCorpus ==
    /\ Completed("split")
    /\ Len(x_train) = training_samples
    /\ Len(x_val) > 0 /\ Len(x_val) < validation_samples
    /\ x_test = <<>>

\* C6 as stated: the token-to-index mapping has at most max_words entries.
C6_WordIndexCapped == Cardinality(DOMAIN word_index) <= max_words

\* C6 amended: word_index holds every distinct token of the corpus, whatever
\* their number; the cap applies to its use: every index in the integer
\* sequences is between 1 and max_words - 1, so at most max_words - 1 tokens
\* are in use.
C6_UsedVocabularyCapped ==
    Completed("tokenize") =>
        /\ DOMAIN word_index = Range(Concat(components))
        /\ \A w \in DOMAIN word_index : word_index[w] \in 1..Cardinality(DOMAIN word_index)
        /\ \A v, w \in DOMAIN word_index : word_index[v] = word_index[w] => v = w
        /\ Len(sequences) = Len(components)
        /\ \A k \in 1..Len(sequences) : \A j \in 1..Len(sequences[k]) :
              sequences[k][j] \in 1..(max_words - 1)
        /\ Cardinality({w \in DOMAIN word_index :
                \E k \in 1..Len(sequences) : word_index[w] \in Range(sequences[k])})
              <= max_words - 1

C6_LargeCorpus ==
    /\ Completed("tokenize")
    /\ Cardinality(DOMAIN word_index) > max_words
    /\ \E k \in 1..Len(sequences) : sequences[k] # <<>>

\* the lines of the downloaded vector file
GloveFileLines == files[glove_file_path].lines

\* the last line of the vector file that gives a vector for w
LastLineOf(w) ==
    CHOOSE k \in 1..Len(GloveFileLines) :
        /\ GloveFileLines[k].word = w
        /\ \A j \in (k + 1)..Len(GloveFileLines) : GloveFileLines[j].word # w

InGloveFile(w) == \E k \in 1..Len(GloveFileLines) : GloveFileLines[k].word = w

\* C7: the embedding matrix has max_words rows of embedding_dim columns; row i
\* is the pretrained vector of the token with index i when that token exists,
\* i < max_words and the token is in the vector file; every other row is zero.
C7_EmbeddingMatrix ==
    Completed("embedding_matrix") =>
        /\ DOMAIN embedding_matrix = 0..(max_words - 1)
        /\ \A i \in 0..(max_words - 1) :
            /\ Len(embedding_matrix[i]) = embedding_dim
            /\ IF \E w \in DOMAIN word_index : word_index[w] = i /\ InGloveFile(w)
               THEN \A w \in DOMAIN word_index : word_index[w] = i =>
                        embedding_matrix[i] = GloveFileLines[LastLineOf(w)].coefs
               ELSE embedding_matrix[i] = Zeros(embedding_dim)

C7_MixedRows ==
    /\ Completed("embedding_matrix")
    /\ \E i \in 1..(max_words - 1) : embedding_matrix[i] # Zeros(embedding_dim)
    /\ \E w \in DOMAIN word_index : word_index[w] >= max_words /\ InGloveFile(w)
    /\ \E w \in DOMAIN word_index : word_index[w] < max_words /\ ~InGloveFile(w)

ModelsOf(r) == {k \in 1..Len(models) : models[k].run = r}

\* C9 as stated: evaluation, then both metric logs, then serialization, then
\* registration.
C9_SaveAfterMetrics ==
    /\ Precedes("evaluate", "log_loss")
    /\ Precedes("log_loss", "log_acc")
    /\ Precedes("log_acc", "save")
    /\ Precedes("save", "register_model")

\* C9 amended: training, then serialization, then evaluation, then the loss
\* log, then the accuracy log, then registration; a run has a registered model
\* only when all of them completed, and never more than one.
C9_FinalStagesInOrder ==
    /\ Precedes("fit", "save")
    /\ Precedes("save", "evaluate")
    /\ Precedes("evaluate", "log_loss")
    /\ Precedes("log_loss", "log_acc")
    /\ Precedes("log_acc", "register_model")
    /\ Completed("log_acc") => logged = <<"loss", "acc">>
    /\ ModelsOf(runNo) # {} <=> Completed("register_model")
    /\ Cardinality(ModelsOf(runNo)) <= 1
    /\ \A k \in 1..Len(models) : models[k].run \in 1..runNo

C9_ModelRegistered ==
    /\ pc = "done"
    /\ ModelsOf(runNo) # {}
    /\ logged = <<"loss", "acc">>

\* C10: one permutation is applied to features and labels: every record is at
\* exactly one position of the permuted order, with its own features and its
\* own label at that position, and the three splits are the contiguous,
\* disjoint slices of that order, the same for features and labels.
C10_LockstepShuffle ==
    Completed("split") =>
        LET N == Len(car_components_df)
            rows == pad_sequences(sequences, embedding_dim)
        IN /\ Len(indices) = N /\ Len(data) = N /\ Len(labels) = N
           /\ \A r \in 0..(N - 1) : Cardinality({k \in 1..N : indices[k] = r}) = 1
           /\ \A k \in 1..N :
                /\ data[k] = rows[indices[k] + 1]
                /\ labels[k] = car_components_df[indices[k] + 1].label
           /\ x_train \o x_val \o x_test = data
           /\ y_train \o y_val \o y_test = labels
           /\ Len(x_train) = Len(y_train)
           /\ Len(x_val) = Len(y_val)
           /\ Len(x_test) = Len(y_test)

C10_Reordered ==
    /\ Completed("split")
    /\ x_test # <<>>
    /\ \E k \in 1..Len(indices) : indices[k] # k - 1
    /\ \E j, k \in 1..Len(labels) : labels[j] # labels[k]

====
